---- MODULE Spec2Model ----
(***************************************************************************)
(* Model of webtool.py: the Hunt Brothers location scraper.                *)
(*                                                                         *)
(* A document is a sequence of tokens.  Every token stands for one piece   *)
(* of markup text that the code's substring searches and regular           *)
(* expressions treat as a unit; text between tags is kept character by     *)
(* character.  Positions in a document are character offsets, as in the    *)
(* code: every token has the length of the text it stands for.             *)
(***************************************************************************)
EXTENDS Integers, Sequences, FiniteSets, TLC

(***************************************************************************)
(* Characters and text                                                     *)
(***************************************************************************)
UpperChars ==
    {"A","B","C","D","E","F","G","H","I","J","K","L","M",
     "N","O","P","Q","R","S","T","U","V","W","X","Y","Z"}

DigitChars == {"0","1","2","3","4","5","6","7","8","9"}

SpaceChars == {" ", "\n"}

IsSpace(c) == c \in SpaceChars
IsUpper(c) == c \in UpperChars
IsDigit(c) == c \in DigitChars

RECURSIVE LStrip(_)
LStrip(s) ==
    IF s = <<>> THEN <<>>
    ELSE IF IsSpace(Head(s)) THEN LStrip(Tail(s)) ELSE s

RECURSIVE RStrip(_)
RStrip(s) ==
    IF s = <<>> THEN <<>>
    ELSE IF IsSpace(s[Len(s)]) THEN RStrip(SubSeq(s, 1, Len(s) - 1)) ELSE s

\* str.strip(): leading and trailing whitespace removed
Strip(s) == RStrip(LStrip(s))

RECURSIVE Concat(_)
Concat(ss) == IF ss = <<>> THEN <<>> ELSE Head(ss) \o Concat(Tail(ss))

\* smallest q >= p that is past the end of s or holds no whitespace
RECURSIVE SkipSpaces(_, _)
SkipSpaces(s, p) ==
    IF p <= Len(s) /\ IsSpace(s[p]) THEN SkipSpaces(s, p + 1) ELSE p

\* smallest q >= p with s[q] a comma, 0 when there is none
RECURSIVE NextComma(_, _)
NextComma(s, p) ==
    IF p > Len(s) THEN 0
    ELSE IF s[p] = "," THEN p ELSE NextComma(s, p + 1)

AllDigits(s, from, n) ==
    /\ from + n - 1 <= Len(s)
    /\ \A k \in from .. (from + n - 1) : IsDigit(s[k])

(***************************************************************************)
(* The city/state/zip pattern                                              *)
(*     ([^,]+),\s*([A-Z]{2})\s+(\d{5}(?:-\d{4})?)                          *)
(* tried at start position p.  The city run cannot hold a comma and must   *)
(* be followed by one, so it ends at the first comma after p; whitespace,  *)
(* capitals and digits are disjoint classes, so every greedy run has one   *)
(* possible end.  The result is <<>> (no match at p) or the three groups.  *)
(***************************************************************************)
ZipLen == 5
ZipExtLen == 4

CszGroupsAt(s, p) ==
    LET c == NextComma(s, p)
        a == SkipSpaces(s, c + 1)
        z == SkipSpaces(s, a + 2)
        e == z + ZipLen
        plus4 == /\ e <= Len(s) /\ s[e] = "-"
                 /\ AllDigits(s, e + 1, ZipExtLen)
    IN  IF /\ p <= Len(s) /\ s[p] # ","
           /\ c # 0
           /\ a + 1 <= Len(s) /\ IsUpper(s[a]) /\ IsUpper(s[a + 1])
           /\ a + 2 <= Len(s) /\ IsSpace(s[a + 2])
           /\ AllDigits(s, z, ZipLen)
        THEN <<SubSeq(s, p, c - 1),
               SubSeq(s, a, a + 1),
               SubSeq(s, z, IF plus4 THEN e + ZipExtLen ELSE e - 1)>>
        ELSE <<>>

\* re.search: the match at the leftmost start position that has one
CszSearch(s) ==
    LET starts == {p \in 1 .. Len(s) : CszGroupsAt(s, p) # <<>>}
    IN  IF starts = {} THEN <<>>
        ELSE CszGroupsAt(s, CHOOSE p \in starts : \A q \in starts : p <= q)

(***************************************************************************)
(* Tokens.  k is the kind, s and t the text the token carries:             *)
(*   open_list  <div class="hbp-location-list">                            *)
(*   loc        <div class="listed-location" data-lat="s" data-lng="t">    *)
(*   div        <div>                 end_div   </div>                     *)
(*   h3         <h3><a href="/location-details/t">s</a></h3>               *)
(*   a_open     <a href="#">          end_a     </a>                       *)
(*   addr_open  <address class="address">   end_addr  </address>           *)
(*   icon       <i></i>               br        <br>                       *)
(*   txt        the characters s, none of them "<"                         *)
(***************************************************************************)
Tok(kind) == [k |-> kind, s |-> <<>>, t |-> <<>>]
Txt(chars) == [k |-> "txt", s |-> chars, t |-> <<>>]
Loc(lat, lng) == [k |-> "loc", s |-> lat, t |-> lng]
H3(name, id) == [k |-> "h3", s |-> name, t |-> id]

\* len('<div class="hbp-location-list">'), len('<div'), len('</div>')
OpenListLen == 31
DivPrefixLen == 4
EndDivLen == 6

\* number of characters of the text a token stands for
TokLen(tok) ==
    CASE tok.k = "open_list" -> OpenListLen
      [] tok.k = "loc"       -> 53 + Len(tok.s) + Len(tok.t)
      [] tok.k = "div"       -> 5
      [] tok.k = "end_div"   -> EndDivLen
      [] tok.k = "h3"        -> 42 + Len(tok.s) + Len(tok.t)
      [] tok.k = "a_open"    -> 12
      [] tok.k = "end_a"     -> 4
      [] tok.k = "addr_open" -> 25
      [] tok.k = "end_addr"  -> 10
      [] tok.k = "icon"      -> 7
      [] tok.k = "br"        -> 4
      [] tok.k = "txt"       -> Len(tok.s)

RECURSIVE DocLen(_)
DocLen(doc) == IF doc = <<>> THEN 0 ELSE TokLen(Head(doc)) + DocLen(Tail(doc))

\* character offset at which token i of doc starts (0-based, as in Python)
Offset(doc, i) == DocLen(SubSeq(doc, 1, i - 1))

\* the kinds of token whose text starts with '<div', and with '</div>'
DivOpenKinds == {"open_list", "loc", "div"}
DivCloseKinds == {"end_div"}

\* str.find(sub, pos) for a sub that only the start of a token of one of
\* `kinds` matches: the offset of the first such token at or after pos, or -1
Find(doc, kinds, pos) ==
    LET hits == {i \in 1 .. Len(doc) : doc[i].k \in kinds /\ Offset(doc, i) >= pos}
    IN  IF hits = {} THEN -1
        ELSE Offset(doc, CHOOSE i \in hits : \A j \in hits : i <= j)

\* doc[from:to] for offsets that fall on token boundaries
Slice(doc, from, to) ==
    LET keep == {i \in 1 .. Len(doc) :
                    Offset(doc, i) >= from /\ Offset(doc, i) + TokLen(doc[i]) <= to}
    IN  IF keep = {} THEN <<>>
        ELSE SubSeq(doc, CHOOSE i \in keep : \A j \in keep : i <= j,
                         CHOOSE i \in keep : \A j \in keep : i >= j)

(***************************************************************************)
(* One iteration of the div-counting loop, on the loop's three variables.  *)
(* st.go is whether the loop continues after this iteration.              *)
(***************************************************************************)
\* the loop body without the test for a nested opening tag
ScanBodyNoNesting(doc, st) ==
    LET next_close == Find(doc, DivCloseKinds, st.search_pos)
    IN  IF next_close = -1
        THEN [st EXCEPT !.go = FALSE]
        ELSE [st EXCEPT !.div_count = 0,
                        !.search_pos = next_close + EndDivLen,
                        !.list_end = next_close + EndDivLen,
                        !.go = FALSE]

\* the loop body with the scan going on from the start of a nested opening
\* tag, not from behind its first characters
ScanBodyFromTagStart(doc, st) ==
    LET next_open == Find(doc, DivOpenKinds, st.search_pos)
        next_close == Find(doc, DivCloseKinds, st.search_pos)
    IN  IF next_close = -1
        THEN [st EXCEPT !.go = FALSE]
        ELSE IF next_open # -1 /\ next_open < next_close
        THEN [st EXCEPT !.div_count = st.div_count + 1,
                        !.search_pos = next_open]
        ELSE IF st.div_count - 1 = 0
        THEN [st EXCEPT !.div_count = 0,
                        !.search_pos = next_close + EndDivLen,
                        !.list_end = next_close + EndDivLen,
                        !.go = FALSE]
        ELSE [st EXCEPT !.div_count = st.div_count - 1,
                        !.search_pos = next_close + EndDivLen]

ScanBody(doc, st) ==
    LET next_open == Find(doc, DivOpenKinds, st.search_pos)
        next_close == Find(doc, DivCloseKinds, st.search_pos)
    IN  IF next_close = -1
        THEN [st EXCEPT !.go = FALSE]
        ELSE IF next_open # -1 /\ next_open < next_close
        THEN [st EXCEPT !.div_count = st.div_count + 1,
                        !.search_pos = next_open + DivPrefixLen]
        ELSE IF st.div_count - 1 = 0
        THEN [st EXCEPT !.div_count = 0,
                        !.search_pos = next_close + EndDivLen,
                        !.list_end = next_close + EndDivLen,
                        !.go = FALSE]
        ELSE [st EXCEPT !.div_count = st.div_count - 1,
                        !.search_pos = next_close + EndDivLen]

\* the loop's variables with the span ending where the scan starts
ScanInitEmptySpan(doc, start) ==
    [div_count |-> 1,
     search_pos |-> start + OpenListLen,
     list_end |-> start + OpenListLen,
     go |-> TRUE]

\* the loop's variables before its first iteration
ScanInit(doc, start) ==
    [div_count |-> 1,
     search_pos |-> start + OpenListLen,
     list_end |-> DocLen(doc),
     go |-> TRUE]

\* the loop's condition
ScanGuard(doc, st) == st.go /\ st.div_count > 0 /\ st.search_pos < DocLen(doc)

\* The entry pattern on the container's tokens: a loc token is the pattern's
\* head (the marker's opening tag with both coordinate attributes, whose
\* values are the first two groups), (.*?) the third group, and the
\* pattern's tail is  </div>\s*</div>\s*</div>
IsBlank(tok) == tok.k = "txt" /\ \A n \in 1 .. Len(tok.s) : IsSpace(tok.s[n])

\* \s* from token j on: the first index that holds no whitespace-only text
RECURSIVE SkipBlank(_, _)
SkipBlank(c, j) ==
    IF j <= Len(c) /\ IsBlank(c[j]) THEN SkipBlank(c, j + 1) ELSE j

IsEndDiv(c, j) == j <= Len(c) /\ c[j].k = "end_div"

\* a tail of two closing tags: index of the second </div>, or 0
DoubleClose(c, j) ==
    LET j2 == SkipBlank(c, j + 1)
    IN  IF IsEndDiv(c, j) /\ IsEndDiv(c, j2) THEN j2 ELSE 0

\* </div>\s*</div>\s*</div> starting at token j: index of the third </div>, or 0
TripleClose(c, j) ==
    LET j2 == SkipBlank(c, j + 1)
        j3 == SkipBlank(c, j2 + 1)
    IN  IF IsEndDiv(c, j) /\ IsEndDiv(c, j2) /\ IsEndDiv(c, j3) THEN j3 ELSE 0

\* the match at the loc token i with a greedy (.*)
MatchAtGreedy(c, i) ==
    LET ends == {j \in (i + 1) .. Len(c) : TripleClose(c, j) # 0}
        j == CHOOSE x \in ends : \A y \in ends : x >= y
    IN  IF c[i].k # "loc" \/ ends = {} THEN <<>>
        ELSE <<[lat |-> c[i].s, lng |-> c[i].t,
                location_html |-> SubSeq(c, i + 1, j - 1),
                last |-> TripleClose(c, j)]>>

\* the match that starts at the loc token i: (.*?) takes the fewest tokens
\* after which the three closing tags follow.  <<>> when there is none.
MatchAt(c, i) ==
    LET ends == {j \in (i + 1) .. Len(c) : TripleClose(c, j) # 0}
        j == CHOOSE x \in ends : \A y \in ends : x <= y
    IN  IF c[i].k # "loc" \/ ends = {} THEN <<>>
        ELSE <<[lat |-> c[i].s, lng |-> c[i].t,
                location_html |-> SubSeq(c, i + 1, j - 1),
                last |-> TripleClose(c, j)]>>

\* re.findall: leftmost match at or after token p, then on from its end
RECURSIVE FindAllFrom(_, _)
FindAllFrom(c, p) ==
    LET starts == {i \in p .. Len(c) : MatchAt(c, i) # <<>>}
        i == CHOOSE x \in starts : \A y \in starts : x <= y
        m == MatchAt(c, i)[1]
    IN  IF starts = {} THEN <<>>
        ELSE <<[lat |-> m.lat, lng |-> m.lng, location_html |-> m.location_html]>>
             \o FindAllFrom(c, m.last + 1)

FindAll(c) == FindAllFrom(c, 1)

(***************************************************************************)
(* parse_single_location                                                   *)
(***************************************************************************)
\* index of the first token of kind in f from p on, 0 when there is none
RECURSIVE FirstOf(_, _, _)
FirstOf(f, kind, p) ==
    IF p > Len(f) THEN 0
    ELSE IF f[p].k = kind THEN p ELSE FirstOf(f, kind, p + 1)

\* first index >= p that holds no text token
RECURSIVE SkipText(_, _)
SkipText(f, p) ==
    IF p <= Len(f) /\ f[p].k = "txt" THEN SkipText(f, p + 1) ELSE p

TextOf(f, from, to) == Concat([n \in 1 .. (to - from + 1) |-> f[from + n - 1].s])

\* <i[^>]*></i>\s*([^<]*)<br>([^<]*)</a> with its head at token i:
\* <<>> or the two groups
AddressAt(f, i) ==
    LET b == SkipText(f, i + 1)
        e == SkipText(f, b + 1)
    IN  IF /\ f[i].k = "icon"
           /\ b <= Len(f) /\ f[b].k = "br"
           /\ e <= Len(f) /\ f[e].k = "end_a"
        THEN <<LStrip(TextOf(f, i + 1, b - 1)), TextOf(f, b + 1, e - 1)>>
        ELSE <<>>

AddressSearch(f) ==
    LET starts == {i \in 1 .. Len(f) : AddressAt(f, i) # <<>>}
    IN  IF starts = {} THEN <<>>
        ELSE AddressAt(f, CHOOSE i \in starts : \A j \in starts : i <= j)

\* <h3><a[^>]*>([^<]*)</a></h3>
StoreNameOf(f) ==
    LET i == FirstOf(f, "h3", 1) IN IF i = 0 THEN <<>> ELSE Strip(f[i].s)

\* /location-details/(\d+)
LocationIdOf(f) ==
    LET ids == {i \in 1 .. Len(f) : f[i].k = "h3" /\ f[i].t # <<>>}
    IN  IF ids = {} THEN <<>>
        ELSE f[CHOOSE i \in ids : \A j \in ids : i <= j].t

CommaSpace == <<",", " ">>

FullAddressOf(street_address, city_state_zip) ==
    IF street_address # <<>> /\ city_state_zip # <<>>
    THEN street_address \o CommaSpace \o city_state_zip
    ELSE <<>>

\* the city, state and zip of the text after the line break
PlaceOf(city_state_zip) ==
    LET csz_match == CszSearch(city_state_zip)
    IN  IF csz_match # <<>>
        THEN [city |-> Strip(csz_match[1]),
              state |-> Strip(csz_match[2]),
              zipCode |-> Strip(csz_match[3])]
        ELSE [city |-> <<>>, state |-> <<>>, zipCode |-> <<>>]

\* the distance and phone probes set fields no other field depends on;
\* they are left out of the record
parse_single_location(location_html, latitude, longitude, index) ==
    LET address_match == AddressSearch(location_html)
        street_address == IF address_match # <<>> THEN Strip(address_match[1]) ELSE <<>>
        city_state_zip == IF address_match # <<>> THEN Strip(address_match[2]) ELSE <<>>
        place == IF address_match # <<>> THEN PlaceOf(city_state_zip)
                 ELSE [city |-> <<>>, state |-> <<>>, zipCode |-> <<>>]
    IN  [locationId |-> LocationIdOf(location_html),
         storeName |-> StoreNameOf(location_html),
         address |-> street_address,
         city |-> place.city,
         state |-> place.state,
         zipCode |-> place.zipCode,
         latitude |-> latitude,
         longitude |-> longitude,
         fullAddress |-> FullAddressOf(street_address, city_state_zip),
         elementIndex |-> index]

\* the loop over the matches giving up the records on a failure
AfterEntryAbort(locs, m, index, raised) ==
    LET location_data == parse_single_location(m.location_html, m.lat, m.lng, index)
    IN  IF raised THEN <<>> ELSE Append(locs, location_data)

\* the body of the loop over the matches, on `locations`: the record of
\* match m is appended, unless parse_single_location raised and so returned
\* None, or raised past its handler: then the loop goes on to the next match
AfterEntry(locs, m, index, raised) ==
    LET location_data == parse_single_location(m.location_html, m.lat, m.lng, index)
    IN  IF raised THEN locs ELSE Append(locs, location_data)

(***************************************************************************)
(* Input documents                                                         *)
(***************************************************************************)
T_Street == <<" ", "1", "1", " ", "H", "W", "Y", " ", "1", "0", " ", "E">>
T_Blank == <<" ">>
T_Newline == <<"\n">>
T_ParkCity == <<"P", "A", "R", "K", " ", "C", "I", "T", "Y">>
T_Csz == <<"P", "A", "R", "K", " ", "C", "I", "T", "Y", ",", " ", "M", "T", " ", "5", "9", "0", "6", "3">>
T_NoCsz == <<"S", "O", "M", "E", "W", "H", "E", "R", "E">>
T_Name == <<"C", "E", "N", "E", "X", " ", "Z", "I", "P", " ", "T", "R", "I", "P", " ", "#", "5", "0">>
T_Id == <<"8", "1", "6", "2", "6">>
T_Lat == <<"4", "5", ".", "6">>
T_Lng == <<"-", "1", "0", "8", ".", "9">>
T_Listing == <<"L", "E", "E", "B", "O", "'", "S", " ", "#", "1", "\n", "1", "7", "8", "3", " ", "H", "W", "Y", " ", "1", "2", "1", "\n", "H", "I", "N", "E", "S", "T", "O", "N", ",", " ", "L", "A", " ", "7", "1", "3", "0", "9", "\n">>

\* the inside of an entry as the site serves it: name link, then the
\* address link with street, line break and city/state/zip text
LinkBody(street, csz) ==
    <<H3(T_Name, T_Id), Tok("a_open"), Tok("icon"), Txt(street), Tok("br"),
      Txt(csz), Tok("end_a")>>

\* the inside of an entry whose address is an <address> element
AddressBody(street, csz) ==
    <<H3(T_Name, T_Id), Tok("addr_open"), Tok("icon"), Txt(street), Tok("br"),
      Txt(csz), Tok("end_addr")>>

RECURSIVE Repeat(_, _)
Repeat(tok, n) == IF n = 0 THEN <<>> ELSE <<tok>> \o Repeat(tok, n - 1)

\* the number of closing tags the entry pattern ends with
NestDepth == 3

\* an entry: the marker, `inner` further nested <div>, the body, and the
\* three closing tags with `gap` between them
Entry(lat, lng, inner, body, gap) ==
    <<Loc(lat, lng)>> \o Repeat(Tok("div"), inner) \o body
      \o <<Tok("end_div")>> \o gap \o <<Tok("end_div")>> \o gap \o <<Tok("end_div")>>

\* an entry the document breaks off in, after the first of its closing tags
CutEntry(lat, lng, inner, body) ==
    <<Loc(lat, lng)>> \o Repeat(Tok("div"), inner) \o body \o <<Tok("end_div")>>

ChunkKinds ==
    {"open_list", "entry", "spaced_entry", "flat_entry", "cut_entry", "div", "end_div",
     "listing"}

\* the tokens of one chunk of a document
ChunkTokens(kind) ==
    CASE kind = "open_list"    -> <<Tok("open_list")>>
      [] kind = "entry"        -> Entry(T_Lat, T_Lng, NestDepth - 1, LinkBody(T_Street, T_Csz), <<>>)
      [] kind = "spaced_entry" -> Entry(<<>>, T_Lng, NestDepth - 1,
                                        LinkBody(T_Street, T_NoCsz), <<Txt(T_Newline)>>)
      [] kind = "flat_entry"   -> Entry(T_Lat, T_Lng, 0, AddressBody(T_Street, T_Csz), <<>>)
      [] kind = "div"          -> <<Tok("div")>>
      [] kind = "end_div"      -> <<Tok("end_div")>>
      [] kind = "cut_entry"    -> CutEntry(T_Lat, T_Lng, NestDepth - 1, LinkBody(T_Street, T_Csz))
      [] kind = "listing"      -> <<Txt(T_Listing)>>

MaxChunks == 3

RECURSIVE ChunkSeqs(_)
ChunkSeqs(n) ==
    IF n = 0 THEN {<<>>}
    ELSE LET shorter == ChunkSeqs(n - 1)
         IN  shorter \cup {Append(cs, kind) : cs \in {x \in shorter : Len(x) = n - 1},
                                               kind \in ChunkKinds}

\* what a page starts with: nothing, or the container's opening tag inside
\* another element
Prefixes == {<<>>, <<"div", "open_list">>}

\* the pages: a prefix and up to MaxChunks chunks
Shapes == {pre \o cs : pre \in Prefixes, cs \in ChunkSeqs(MaxChunks)}

DocOf(chunks) == Concat([n \in 1 .. Len(chunks) |-> ChunkTokens(chunks[n])])

(***************************************************************************)
(* State                                                                   *)
(***************************************************************************)
VARIABLES
    shape,             \* the chunks the served page is made of
    pc,                \* position in main
    driver,            \* "none" before setup_browser, then "open", then "closed"
    quits,             \* number of driver.quit() calls
    escaped,           \* an exception is propagating out of the try block
    success,           \* what robot_search_locations returned, "unset" before
    html_content,      \* the page source being parsed
    list_start,
    scan,              \* div_count, search_pos, list_end of the counting loop
    container_html,
    location_matches,
    i,                 \* the loop index of the loop over location_matches
    skipped,           \* the indexes whose fragment produced no record
    locations

vars == <<shape, pc, driver, quits, escaped, success, html_content, list_start, scan,
          container_html, location_matches, i, skipped, locations>>

NoScan == [div_count |-> 0, search_pos |-> 0, list_end |-> 0, go |-> FALSE]

parse_vars == <<html_content, list_start, scan, container_html, location_matches,
                i, skipped, locations>>

Init ==
    /\ shape \in Shapes
    /\ pc = "start"
    /\ driver = "none"
    /\ quits = 0
    /\ escaped = FALSE
    /\ success = "unset"
    /\ html_content = <<>>
    /\ list_start = -1
    /\ scan = NoScan
    /\ container_html = <<>>
    /\ location_matches = <<>>
    /\ i = 0
    /\ skipped = {}
    /\ locations = <<>>

(***************************************************************************)
(* main, the branch that is not the demo                                   *)
(***************************************************************************)
\* where main goes after the call of robot_search_locations, with the test
\* of success left out: the page is extracted whatever the call returned
AfterSearchUntested(outcome) == IF outcome = "raise" THEN "finally" ELSE "extract"

\* where main goes after the call of robot_search_locations: on True to the
\* extraction, on False (locations = []) or an exception to the finally block
AfterSearch(outcome) == IF outcome = "True" THEN "extract" ELSE "finally"

\* setup_browser returns a driver or None; on None main stops
SetupBrowser ==
    /\ pc = "start"
    /\ \E ok \in BOOLEAN :
          IF ok THEN driver' = "open" /\ pc' = "search"
                ELSE driver' = "none" /\ pc' = "stopped"
    /\ UNCHANGED <<shape, success, quits, escaped, parse_vars>>

\* the try block up to the test of success: robot_search_locations returns
\* True or False, or an exception leaves the block
RobotSearch ==
    /\ pc = "search"
    /\ \E outcome \in {"True", "False", "raise"} :
          /\ success' = IF outcome = "raise" THEN success ELSE outcome
          /\ pc' = AfterSearch(outcome)
          /\ escaped' = (outcome = "raise")
    /\ UNCHANGED <<shape, driver, quits, parse_vars>>

\* robot_extract_html returns the page source or None; an empty or absent
\* source is not parsed
RobotExtractHtml ==
    /\ pc = "extract"
    /\ \E got \in BOOLEAN :
          IF got /\ DocOf(shape) # <<>>
          THEN html_content' = DocOf(shape) /\ pc' = "parse"
          ELSE html_content' = <<>> /\ pc' = "finally"
    /\ UNCHANGED <<shape, success, driver, quits, escaped, list_start, scan, container_html,
                   location_matches, i, skipped, locations>>

(***************************************************************************)
(* parse_hunt_brothers_html                                                *)
(***************************************************************************)
\* find the container; return [] when there is none
FindContainer ==
    /\ pc = "parse"
    /\ LET start == Find(html_content, {"open_list"}, 0)
       IN  /\ list_start' = start
           /\ IF start = -1
              THEN pc' = "finally" /\ scan' = scan
              ELSE /\ pc' = "scan"
                   /\ scan' = ScanInit(html_content, start)
    /\ UNCHANGED <<shape, success, driver, quits, escaped, html_content, container_html,
                   location_matches, i, skipped, locations>>

\* one iteration of the while loop
ScanStep ==
    /\ pc = "scan"
    /\ ScanGuard(html_content, scan)
    /\ scan' = ScanBody(html_content, scan)
    /\ UNCHANGED <<shape, success, pc, driver, quits, escaped, html_content, list_start,
                   container_html, location_matches, i, skipped, locations>>

\* after the loop: cut the container out and split it into entries
SplitEntries ==
    /\ pc = "scan"
    /\ ~ScanGuard(html_content, scan)
    /\ container_html' = Slice(html_content, list_start, scan.list_end)
    /\ location_matches' = FindAll(container_html')
    /\ i' = 0
    /\ pc' = "entries"
    /\ UNCHANGED <<shape, success, driver, quits, escaped, html_content, list_start, scan,
                   skipped, locations>>

\* one iteration of the loop over the matches: the fragment's record is
\* appended, or, when parse_single_location raised and returned None, the
\* fragment is skipped
ParseEntry ==
    /\ pc = "entries"
    /\ i < Len(location_matches)
    /\ \E raised \in BOOLEAN :
          /\ locations' = AfterEntry(locations, location_matches[i + 1], i, raised)
          /\ skipped' = IF raised THEN skipped \cup {i} ELSE skipped
    /\ i' = i + 1
    /\ UNCHANGED <<shape, success, pc, driver, quits, escaped, html_content, list_start, scan,
                   container_html, location_matches>>

\* return locations
ParseReturn ==
    /\ pc = "entries"
    /\ i = Len(location_matches)
    /\ pc' = "finally"
    /\ UNCHANGED <<shape, success, driver, quits, escaped, parse_vars>>

\* an exception leaves the try block during the extraction or the parsing
Escape ==
    /\ pc \in {"extract", "parse", "scan", "entries"}
    /\ escaped' = TRUE
    /\ pc' = "finally"
    /\ UNCHANGED <<shape, success, driver, quits, parse_vars>>

\* the finally block: driver.quit(); then the results are displayed, unless
\* an exception is propagating
DriverQuit ==
    /\ pc = "finally"
    /\ driver' = "closed"
    /\ quits' = quits + 1
    /\ pc' = IF escaped THEN "raised" ELSE "display"
    /\ UNCHANGED <<shape, success, escaped, parse_vars>>

Next ==
    \/ SetupBrowser
    \/ RobotSearch
    \/ RobotExtractHtml
    \/ FindContainer
    \/ ScanStep
    \/ SplitEntries
    \/ ParseEntry
    \/ ParseReturn
    \/ Escape
    \/ DriverQuit

Spec == Init /\ [][Next]_vars

(***************************************************************************)
(* parse_single_location on its own: every fragment of the sets below,     *)
(* with each pair of coordinates and each index                            *)
(***************************************************************************)
PreParts == {<<>>, <<"X", ",">>}
CityParts == {T_ParkCity, T_Blank, <<>>}
SepParts == {<<",">>, <<",", " ">>, <<>>}
StateParts == {<<"M", "T">>, <<"M">>, <<"m", "t">>}
GapParts == {T_Blank, <<>>}
ZipParts == {<<"5", "9", "0", "6", "3">>, <<"5", "9", "0", "6">>, <<"5", "9", "0", "6", "3", "-", "1", "2", "3", "4">>, <<"5", "9", "0", "6", "3", "-", "1", "2">>}
TailParts == {<<>>, <<" ", "U", "S", "A">>}

CszTexts ==
    {<<>>, T_Blank, T_NoCsz}
    \cup {pre \o city \o sep \o state \o gap \o zip \o tail :
             pre \in PreParts, city \in CityParts, sep \in SepParts,
             state \in StateParts, gap \in GapParts, zip \in ZipParts,
             tail \in TailParts}

StreetTexts == {T_Street, T_Blank}

Fragments ==
    {<<H3(T_Name, T_Id)>>}
    \cup {LinkBody(street, csz) : street \in StreetTexts, csz \in CszTexts}
    \cup {AddressBody(street, csz) : street \in StreetTexts, csz \in CszTexts}

MaxIndex == 1

InitEntry ==
    /\ shape = <<>>
    /\ pc = "entry_call"
    /\ driver = "none"
    /\ quits = 0
    /\ escaped = FALSE
    /\ success = "unset"
    /\ html_content = <<>>
    /\ list_start = -1
    /\ scan = NoScan
    /\ container_html = <<>>
    /\ \E f \in Fragments, lat \in {<<>>, T_Lat} :
          location_matches = <<[lat |-> lat, lng |-> T_Lng, location_html |-> f]>>
    /\ i \in 0 .. MaxIndex
    /\ skipped = {}
    /\ locations = <<>>

\* location_data = parse_single_location(location_html, lat, lng, i)
CallParseSingle ==
    /\ pc = "entry_call"
    /\ LET m == location_matches[1]
       IN  locations' = <<parse_single_location(m.location_html, m.lat, m.lng, i)>>
    /\ pc' = "entry_done"
    /\ UNCHANGED <<shape, success, driver, quits, escaped, html_content, list_start, scan,
                   container_html, location_matches, i, skipped>>

NextEntry == CallParseSingle

SpecEntry == InitEntry /\ [][NextEntry]_vars

(***************************************************************************)
(* Properties                                                              *)
(***************************************************************************)
\* the container has been cut out of the document, and no exception has
\* broken the parsing off
Parsed == list_start # -1 /\ pc # "scan" /\ ~escaped

\* main is past the try block without an exception
Displayed == pc = "display" /\ html_content # <<>>

Min(S) == CHOOSE x \in S : \A y \in S : x <= y

\* index of the first container opening tag of doc, 0 when there is none
FirstContainer(doc) ==
    LET cs == {n \in 1 .. Len(doc) : doc[n].k = "open_list"}
    IN  IF cs = {} THEN 0 ELSE Min(cs)

\* change of the nesting depth at a token
DepthChange(tok) ==
    IF tok.k \in {"open_list", "loc", "div"} THEN 1
    ELSE IF tok.k = "end_div" THEN -1 ELSE 0

\* nesting depth just after token n, when it is `depth` just before token
\* `from`
RECURSIVE DepthWalk(_, _, _, _)
DepthWalk(doc, from, n, depth) ==
    IF from > n THEN depth
    ELSE DepthWalk(doc, from + 1, n, depth + DepthChange(doc[from]))

\* nesting depth just after token n, the container's opening tag at index c
\* counting as depth 1
DepthAfter(doc, c, n) == DepthWalk(doc, c + 1, n, 1)

\* index of the first token from n on at which the depth, `depth` before
\* token n, becomes 0; 0 when there is none
RECURSIVE CloseWalk(_, _, _)
CloseWalk(doc, n, depth) ==
    IF n > Len(doc) THEN 0
    ELSE IF depth + DepthChange(doc[n]) = 0 THEN n
    ELSE CloseWalk(doc, n + 1, depth + DepthChange(doc[n]))

\* index of the closing tag that balances the container opened at c, 0 when
\* the depth never returns to 0
BalancingClose(doc, c) == IF c = 0 THEN 0 ELSE CloseWalk(doc, c + 1, 1)

\* the number of tokens of doc that start before offset pos
RECURSIVE TokensBeforeFrom(_, _, _, _)
TokensBeforeFrom(doc, n, at, pos) ==
    IF n > Len(doc) \/ at >= pos THEN n - 1
    ELSE TokensBeforeFrom(doc, n + 1, at + TokLen(doc[n]), pos)

TokensBefore(doc, pos) == TokensBeforeFrom(doc, 1, 0, pos)

\* C1: every record's elementIndex equals its zero-based position in the
\* returned sequence, also when fragments were skipped
C1_IndexContiguity ==
    \A p \in 1 .. Len(locations) : locations[p].elementIndex = p - 1

\* C3: when the container is present and properly closed, the span starts at
\* the first container opening tag and ends just after the closing tag at
\* which the depth, counted in document order from 1, first becomes 0; while
\* the loop runs its counter is that depth at the scan position
C3_BalancedSpan ==
    LET c == FirstContainer(html_content)
        k == BalancingClose(html_content, c)
    IN  /\ (pc = "scan" /\ scan.go) =>
               scan.div_count =
                   DepthAfter(html_content, c, TokensBefore(html_content, scan.search_pos))
        /\ (Parsed /\ k # 0) =>
               /\ list_start = Offset(html_content, c)
               /\ scan.list_end = Offset(html_content, k) + TokLen(html_content[k])
               /\ container_html = SubSeq(html_content, c, k)

\* a closed container with nested tags inside, text before it and after it
C3_Witness ==
    LET c == FirstContainer(html_content)
        k == BalancingClose(html_content, c)
    IN  /\ Parsed /\ k # 0
        /\ c > 1 /\ k < Len(html_content)
        /\ \E n \in (c + 1) .. k : DepthAfter(html_content, c, n) >= 3
        /\ \E n \in (c + 1) .. (k - 1) : html_content[n].k = "end_div"

\* C9: latitude and longitude of a record are both empty or both non-empty
C9_CoordinatePair ==
    \A p \in 1 .. Len(locations) :
        (locations[p].latitude = <<>>) <=> (locations[p].longitude = <<>>)

\* the loc tokens of a token sequence: its entry markers
Markers(c) == {n \in 1 .. Len(c) : c[n].k = "loc"}

\* the n-th marker of c in document order
NthMarker(c, n) ==
    CHOOSE m \in Markers(c) : Cardinality({x \in Markers(c) : x < m}) = n - 1

\* index of the first marker after token n, past the end when there is none
NextMarker(c, n) ==
    LET later == {m \in Markers(c) : m > n}
    IN  IF later = {} THEN Len(c) + 1 ELSE Min(later)

OnlyBlankBetween(c, a, b) ==
    \A x \in (a + 1) .. (b - 1) :
        c[x].k = "txt" /\ \A y \in 1 .. Len(c[x].s) : c[x].s[y] \in {" ", "\n"}

\* three closing tags, with at most whitespace between them, from token j to
\* token e
ThreeCloses(c, j, e) ==
    /\ c[j].k = "end_div" /\ c[e].k = "end_div"
    /\ \E mid \in (j + 1) .. (e - 1) :
          /\ c[mid].k = "end_div"
          /\ OnlyBlankBetween(c, j, mid)
          /\ OnlyBlankBetween(c, mid, e)

\* the places after marker n where three closing tags begin
ClosesAfter(c, n) ==
    {j \in (n + 1) .. Len(c) :
        c[j].k = "end_div" /\ \E e \in (j + 2) .. Len(c) : ThreeCloses(c, j, e)}

\* marker n is followed by content and three closing tags before the next
\* marker begins
WellFormedEntry(c, n) ==
    \E j \in ClosesAfter(c, n) :
        \E e \in (j + 2) .. (NextMarker(c, n) - 1) : ThreeCloses(c, j, e)

WellFormedMarkers(c) == {n \in Markers(c) : WellFormedEntry(c, n)}

\* the container's span as the document defines it: up to the balancing
\* closing tag, or to the end of the document when there is none
SpanOf(doc) ==
    LET c == FirstContainer(doc)
        k == BalancingClose(doc, c)
    IN  IF c = 0 THEN <<>>
        ELSE SubSeq(doc, c, IF k # 0 THEN k ELSE Len(doc))

\* C4: a container holding N well-formed entries is split into exactly N
\* fragments, in document order, one per marker: the n-th fragment has the
\* n-th marker's coordinates and its content up to its closing tags
C4_EntryCountFidelity ==
    (Parsed /\ WellFormedMarkers(container_html) = Markers(container_html)) =>
        /\ Len(location_matches) = Cardinality(Markers(container_html))
        /\ \A n \in 1 .. Len(location_matches) :
              LET m == NthMarker(container_html, n)
                  j == Min(ClosesAfter(container_html, m))
              IN  /\ location_matches[n].lat = container_html[m].s
                  /\ location_matches[n].lng = container_html[m].t
                  /\ location_matches[n].location_html = SubSeq(container_html, m + 1, j - 1)

\* two well-formed entries, different ones, the second one's closing tags
\* next to the container's own closing tag
C4_Witness ==
    LET c == container_html
        n == Len(c)
    IN  /\ Parsed
        /\ BalancingClose(html_content, FirstContainer(html_content)) # 0
        /\ WellFormedMarkers(c) = Markers(c)
        /\ Len(location_matches) = 2
        /\ location_matches[1].lat # location_matches[2].lat
        /\ n >= 4
        /\ \A x \in (n - 3) .. n : c[x].k = "end_div"

C7_NotFoundIsEmpty ==
    LET span == SpanOf(html_content)
    IN  (/\ pc \in {"entries", "finally", "display", "raised"}
         /\ html_content # <<>>
         /\ \A n \in Markers(span) : ClosesAfter(span, n) = {}) =>
            /\ location_matches = <<>>
            /\ locations = <<>>
            /\ skipped = {}
            /\ pc = "raised" => escaped

\* a container that holds a marker, but never three closing tags after it
C7_Witness ==
    LET span == SpanOf(html_content)
    IN  /\ Displayed
        /\ Markers(span) # {}
        /\ \A n \in Markers(span) : ClosesAfter(span, n) = {}
        /\ locations = <<>>

\* C8: a fragment whose parsing fails is skipped and nothing else: the
\* records are those of the other fragments handled so far, in document
\* order, and they are what is returned
C8_PerEntryIsolation ==
    LET kept == (0 .. (i - 1)) \ skipped
        nth(p) == CHOOSE n \in kept : Cardinality({x \in kept : x < n}) = p - 1
    IN  Parsed =>
            /\ Len(locations) = Cardinality(kept)
            /\ \A p \in 1 .. Len(locations) :
                  LET m == location_matches[nth(p) + 1]
                  IN  locations[p] =
                          parse_single_location(m.location_html, m.lat, m.lng, nth(p))
            /\ Displayed => i = Len(location_matches)

\* a returned sequence with a record before and a record after a skipped one
C8_Witness ==
    /\ Displayed /\ Parsed
    /\ \E a \in skipped :
          /\ \E p \in 1 .. Len(locations) : locations[p].elementIndex < a
          /\ \E p \in 1 .. Len(locations) : locations[p].elementIndex > a

\* C2: city, state and zipCode of a record are all empty or all non-empty
C2_AllOrNothingPlace ==
    \A p \in 1 .. Len(locations) :
        LET r == locations[p]
        IN  \/ r.city = <<>> /\ r.state = <<>> /\ r.zipCode = <<>>
            \/ r.city # <<>> /\ r.state # <<>> /\ r.zipCode # <<>>

\* C10: fullAddress is the address followed by the record's city, state and
\* zip when the address and the place are there, and empty otherwise
C10_FullAddressDerived ==
    \A p \in 1 .. Len(locations) :
        LET r == locations[p]
            place == r.city \o <<",", " ">> \o r.state \o <<" ">> \o r.zipCode
        IN  r.fullAddress =
                IF r.address # <<>> /\ r.city # <<>> /\ r.state # <<>> /\ r.zipCode # <<>>
                THEN r.address \o <<",", " ">> \o place
                ELSE <<>>

\* C11: for a fragment whose address element holds the street text, a line
\* break and the text "PARK CITY, MT 59063", the record's address is the
\* street text and its city, state and zipCode are the parts of that text
C11_AddressElementRecord ==
    (pc = "entry_done"
       /\ location_matches[1].location_html = AddressBody(T_Street, T_Csz))
    => /\ Len(locations) = 1
       /\ locations[1].address = Strip(T_Street)
       /\ locations[1].city = T_ParkCity
       /\ locations[1].state = <<"M", "T">>
       /\ locations[1].zipCode = <<"5", "9", "0", "6", "3">>

\* main has begun to parse the page
ParsingBegun ==
    \/ pc \in {"parse", "scan", "entries"}
    \/ list_start # -1
    \/ location_matches # <<>>
    \/ locations # <<>>

\* the driver is open and not yet quit from the return of setup_browser to
\* the finally block, and quit once after it; the parsing begins only with
\* success True and a page source
QuitOnceSoFar ==
    /\ quits <= 1
    /\ pc \in {"start", "stopped"} => driver = "none" /\ quits = 0
    /\ pc \in {"search", "extract", "parse", "scan", "entries", "finally"} =>
          driver = "open" /\ quits = 0
    /\ pc \in {"display", "raised"} => driver = "closed" /\ quits = 1
    /\ pc = "raised" <=> (escaped /\ quits = 1)
    /\ ParsingBegun => success = "True" /\ html_content # <<>>

\* main is over: the results are displayed, an exception has left main, or
\* st.stop() has ended the run for want of a driver
MainOver == pc \in {"display", "raised", "stopped"}

\* main has a statement to go on with: the calls and the finally block wait
\* for nothing; in the counting loop either the loop's condition holds or it
\* does not; the loop over the matches is within the matches
MainCanGoOn ==
    /\ pc \in {"start", "search", "extract", "parse", "scan", "entries", "finally"}
    /\ pc = "scan" => ScanGuard(html_content, scan) \in BOOLEAN
    /\ pc = "entries" => i \in 0 .. Len(location_matches)

\* how many of main's stages are still ahead
StagesLeft(p) ==
    CASE p = "start"   -> 7
      [] p = "search"  -> 6
      [] p = "extract" -> 5
      [] p = "parse"   -> 4
      [] p = "scan"    -> 3
      [] p = "entries" -> 2
      [] p = "finally" -> 1
      [] OTHER         -> 0

\* what is left of the loop main is in: the characters not yet scanned, or
\* the fragments not yet handled
LoopLeft ==
    CASE pc = "scan"    -> DocLen(html_content) - scan.search_pos
                              + (IF scan.go THEN 1 ELSE 0)
      [] pc = "entries" -> Len(location_matches) - i
      [] OTHER          -> 0

\* a step of main takes it to a later stage, or further in the loop it is in
MainAdvances ==
    \/ StagesLeft(pc') < StagesLeft(pc)
    \/ /\ pc' = pc
       /\ LoopLeft' < LoopLeft
       /\ LoopLeft' >= 0

\* C12: once setup_browser has returned a driver, driver.quit() is called
\* exactly once on every path of main: never twice and never before the
\* finally block; main is over only after the call; as long as main is not
\* over it has a next step, and every step brings it nearer the end, whether
\* the search returned True or False, the page source was obtained or not,
\* or an exception left the search, the extraction or the parsing; and the
\* page is parsed only after the search returned True and a page source was
\* there
C12_QuitExactlyOnce ==
    /\ [](QuitOnceSoFar /\ (~MainOver => MainCanGoOn))
    /\ [][MainAdvances]_vars

\* an exception has left the parsing of an obtained page, and the driver has
\* been quit once
C12_Witness ==
    /\ pc = "raised"
    /\ success = "True"
    /\ list_start # -1
    /\ driver = "closed"
    /\ quits = 1

\* the counting loop is running or has run
Scanning == list_start # -1 /\ pc \in {"scan", "entries"}

\* the loop's variables at the head of the loop and after it
ScanInBounds ==
    Scanning =>
        /\ scan.div_count >= 0
        /\ ScanGuard(html_content, scan) => scan.div_count >= 1
        /\ scan.search_pos >= list_start + OpenListLen
        /\ scan.search_pos <= DocLen(html_content)
        /\ list_start < scan.list_end
        /\ scan.list_end <= DocLen(html_content)
        /\ pc = "entries" => ~ScanGuard(html_content, scan)

\* an iteration leaves the loop or moves the scan position forward, and
\* lowers what is left of the loop, which is never negative
ScanIterates ==
    (pc = "scan" /\ pc' = "scan") =>
        /\ ~scan'.go \/ scan'.search_pos > scan.search_pos
        /\ scan'.search_pos >= scan.search_pos
        /\ LoopLeft' < LoopLeft
        /\ LoopLeft' >= 0

\* C13: the counting loop ends on every document: an iteration either leaves
\* the loop or moves search_pos strictly forward, and search_pos never passes
\* the end of the document, so the iterations are at most as many as the
\* document has characters; div_count is at least 1 whenever the loop goes
\* on and never negative; and the span's end is behind the container's start
\* and not behind the document's end
C13_ScanTerminates ==
    /\ []ScanInBounds
    /\ [][ScanIterates]_vars

\* the loop has gone into nested elements, come back out of them and ended
\* at the container's closing tag, before the end of the document
C13_Witness ==
    /\ pc = "entries"
    /\ list_start > 0
    /\ scan.div_count = 0
    /\ ~scan.go
    /\ scan.list_end < DocLen(html_content)
    /\ Len(container_html) > NestDepth

(***************************************************************************)
(* The heuristic fallback parser of the design, which webtool.py does not  *)
(* have: the document's text, markup stripped, is classified line by line  *)
(* and the records are rebuilt from the lines.  The phone and hours lines  *)
(* set fields that are not in the record of this model.                    *)
(***************************************************************************)
RECURSIVE SplitLines(_, _)
SplitLines(text, line) ==
    IF text = <<>> THEN (IF line = <<>> THEN <<>> ELSE <<line>>)
    ELSE IF Head(text) = "\n" THEN <<line>> \o SplitLines(Tail(text), <<>>)
    ELSE SplitLines(Tail(text), Append(line, Head(text)))

\* the lines of the text left when the tags are taken out; a tag ends a line
RECURSIVE DocLines(_)
DocLines(doc) ==
    IF doc = <<>> THEN <<>>
    ELSE (IF Head(doc).k \in {"txt", "h3"} THEN SplitLines(Head(doc).s, <<>>) ELSE <<>>)
         \o DocLines(Tail(doc))

Contains(l, sub) ==
    \E n \in 1 .. (Len(l) - Len(sub) + 1) : SubSeq(l, n, n + Len(sub) - 1) = sub

StreetSuffixes ==
    {<<"H", "W", "Y">>, <<"H", "I", "G", "H", "W", "A", "Y">>, <<"S", "T">>, <<"A", "V", "E">>, <<"R", "D">>, <<"D", "R">>, <<"L", "N">>, <<"B", "L", "V", "D">>}

IsStoreNameLine(l) == Contains(l, <<"#">>) \/ Contains(l, <<"'">>)

IsStreetLine(l) ==
    /\ l # <<>> /\ IsDigit(l[1])
    /\ \E suffix \in StreetSuffixes : Contains(l, <<" ">> \o suffix)

EmptyAccumulator == [storeName |-> <<>>, address |-> <<>>, city |-> <<>>,
                     state |-> <<>>, zipCode |-> <<>>]

Qualifies(acc) == acc.storeName # <<>> \/ acc.address # <<>>

\* the record normalizer of the design on a flushed accumulator
Normalize(acc, index) ==
    LET place == acc.city \o <<",", " ">> \o acc.state \o <<" ">> \o acc.zipCode
    IN  [locationId |-> <<>>,
         storeName |-> acc.storeName,
         address |-> acc.address,
         city |-> acc.city,
         state |-> acc.state,
         zipCode |-> acc.zipCode,
         latitude |-> <<>>,
         longitude |-> <<>>,
         fullAddress |-> IF acc.address # <<>> /\ acc.city # <<>>
                         THEN acc.address \o <<",", " ">> \o place ELSE <<>>,
         elementIndex |-> index]

Flush(acc, out) == IF Qualifies(acc) THEN Append(out, Normalize(acc, Len(out))) ELSE out

RECURSIVE FallbackLines(_, _, _)
FallbackLines(lines, acc, out) ==
    IF lines = <<>> THEN Flush(acc, out)
    ELSE LET l == Strip(Head(lines))
             rest == Tail(lines)
         IN  IF IsStoreNameLine(l)
             THEN FallbackLines(rest, [EmptyAccumulator EXCEPT !.storeName = l], Flush(acc, out))
             ELSE IF IsStreetLine(l)
             THEN FallbackLines(rest, [acc EXCEPT !.address = l], out)
             ELSE IF CszSearch(l) # <<>>
             THEN FallbackLines(rest, [acc EXCEPT !.city = PlaceOf(l).city,
                                                  !.state = PlaceOf(l).state,
                                                  !.zipCode = PlaceOf(l).zipCode], out)
             ELSE FallbackLines(rest, acc, out)

HeuristicFallback(doc) == FallbackLines(DocLines(doc), EmptyAccumulator, <<>>)

\* C5: when the structural path yields no record, the result of the
\* extraction is what the heuristic fallback parser makes of the document
C5_FallbackOnEmpty ==
    (Displayed /\ Len(locations) = 0) => HeuristicFallback(html_content) = <<>>


====
